---- MODULE Spec2Model ----
(***************************************************************************)
(* A model of github.com/ubogdan/radius: the UDP dispatch server of        *)
(* server.go (its three Server definitions), its response writer call by   *)
(* call, and the Attribute constructors and EAP sub-codec of attribute.go. *)
(*                                                                         *)
(* server.go holds three definitions of Server:                            *)
(*   variant 1  lines   1-103  Service.RadiusHandle, ch, Stop()            *)
(*   variant 2  lines 105-299  Handler.ServeRADIUS, doneChan, Shutdown(ctx)*)
(*   variant 3  lines 301-440  Handler.ServeRADIUS, ch, Stop()             *)
(* One server instance is modelled, on which ListenAndServe is called once; *)
(* its variant is chosen in Init.                                          *)
(*                                                                         *)
(* Goroutines are interleaved step by step: the accept loop, one goroutine *)
(* per datagram, the callers of Stop/Shutdown and Shutdown's waiter.       *)
(* sync.WaitGroup is a counter, Wait being enabled when it is zero.  A     *)
(* panic in any goroutine ends the process: no step follows it.            *)
(***************************************************************************)
EXTENDS Integers, Sequences, FiniteSets, TLC

\* number of datagrams the socket delivers in one run
MaxTasks == 2
\* number of Write calls one ServeRADIUS invocation makes at most
MaxWrites == 1
\* the goroutines that call Stop() or Shutdown(ctx)
Callers == {"c1", "c2"}

VARIABLES
    variant,     \* which Server definition of server.go runs
    doneChan,    \* s.ch / s.doneChan: "nil", "open" or "closed"
    wgAssigned,  \* s.waitGroup # nil
    wgCount,     \* the counter of *s.waitGroup
    conn,        \* the listening socket: "none", "open" or "closed"
    lpc,         \* the accept loop's position
    lret,        \* what ListenAndServe returned: "none", "nil" or "err"
    lerr,        \* why ListenAndServe returned
    lread,       \* the accept loop's locals b and addr of this iteration
    bufs,        \* the contents of the buffers made by the accept loop
    tasks,       \* the request goroutines, in the order they were spawned
    spawned,     \* how many request goroutines the accept loop has started
    callers,     \* the Stop/Shutdown calls
    panicked,    \* "none", or the panic that ended the process
    eapPc,       \* EAP sub-codec: which operation was applied
    eapIn,       \* EAP sub-codec: the attribute value given to EAPMessage()
    eapArgs,     \* EAP sub-codec: the arguments given to NewEAPMessage()
    eapOut,      \* EAP sub-codec: the result of EAPMessage()
    attrCall,    \* attribute constructors: the constructor called, its argument
    attrOut,     \* attribute constructors: what the constructor returned
    writer       \* one response writer: its socket, its calls, what it sent

serverVars == <<variant, doneChan, wgAssigned, wgCount, conn, lpc, lret,
                lerr, lread, bufs, tasks, spawned, callers, panicked>>
eapVars == <<eapPc, eapIn, eapArgs, eapOut, attrCall, attrOut, writer>>
vars == <<variant, doneChan, wgAssigned, wgCount, conn, lpc, lret,
          lerr, lread, bufs, tasks, spawned, callers, panicked,
          eapPc, eapIn, eapArgs, eapOut,
          attrCall, attrOut, writer>>

TaskIds == 1..MaxTasks

\* the buffers the accept loop makes, by the order of their making: one for
\* each datagram, and the one of the reads after the last datagram
BufIds == 1..(MaxTasks + 1)

\* the k-th datagram the socket delivers: its bytes and the address it was
\* sent from, both told apart from every other datagram's
Payload(k) == k
Sender(k) == k

\* no bytes, no address, no buffer
Nil == 0

\* the accept loop between two reads: b and addr are not in scope
NoRead == [b |-> Nil, addr |-> Nil]

\* a request goroutine that the accept loop has not started yet: p and addr
\* are its arguments, bytes what it gave to Parse, sentTo the addresses its
\* response writer has sent a datagram to
NoTask ==
    [pc |-> "none", sec |-> "none", parsed |-> FALSE, par |-> "none",
     handled |-> 0, calls |-> 0, written |-> 0,
     p |-> Nil, addr |-> Nil, bytes |-> Nil, sentTo |-> {}]

\* a Stop()/Shutdown(ctx) call that has not been made yet
NoCall ==
    [pc |-> "idle", res |-> "none", pre |-> {}, listening |-> FALSE,
     ctxDone |-> FALSE, wpc |-> "none", waitChan |-> 0]

InFlight(t) == tasks[t].pc \notin {"none", "done"}

Running == panicked = "none"

----------------------------------------------------------------------------
(* Construction *)

\* NewServer of variants 1 and 3 makes ch and the wait group; variant 2's
\* NewServer (and the Server literal of the package function ListenAndServe)
\* leaves doneChan and waitGroup nil.
NewServer(v) ==
    /\ variant = v
    /\ doneChan = IF v = 2 THEN "nil" ELSE "open"
    /\ wgAssigned = (v # 2)
    /\ wgCount = 0
    /\ conn = "none"
    /\ lpc = "idle"
    /\ lret = "none"
    /\ lerr = "none"
    /\ lread = NoRead
    /\ bufs = [i \in BufIds |-> Nil]
    /\ tasks = [t \in TaskIds |-> NoTask]
    /\ spawned = 0
    /\ callers = [c \in Callers |-> NoCall]
    /\ panicked = "none"

\* no attribute constructor is being called
AttrIdle ==
    /\ attrCall = [fn |-> "none"]
    /\ attrOut = [kind |-> "none"]

\* no response writer is being followed
WriterIdle == writer = [conn |-> "none", log |-> <<>>, wire |-> <<>>]

EapIdle ==
    /\ eapPc = "idle"
    /\ eapIn = <<>>
    /\ eapArgs = <<>>
    /\ eapOut = [kind |-> "none"]
    /\ AttrIdle
    /\ WriterIdle

Init ==
    /\ \E v \in {1, 2, 3} : NewServer(v)
    /\ EapIdle

----------------------------------------------------------------------------
(* The done channel of variant 2 *)

\* getDoneChanLocked: the channel is made on first use
getDoneChanLocked(ch) == IF ch = "nil" THEN "open" ELSE ch

\* close(ch): closing a closed channel panics
close(ch) == IF ch = "closed" THEN "panic" ELSE "closed"

\* a closeDoneChanLocked without its select: it closes whatever it gets
closeDoneChanAlways(ch) == close(getDoneChanLocked(ch))

\* closeDoneChanLocked: close unless already closed
closeDoneChanLocked(ch) ==
    LET c == getDoneChanLocked(ch)
    IN  IF c = "closed" THEN c ELSE close(c)

----------------------------------------------------------------------------
(* The accept loop: ListenAndServe *)

\* ResolveUDPAddr / ListenUDP fail: ListenAndServe returns the error
ListenFail ==
    /\ Running
    /\ lpc = "idle"
    /\ lpc' = "returned"
    /\ lret' = "err"
    /\ lerr' = "listen"
    /\ UNCHANGED <<variant, doneChan, wgAssigned, wgCount, conn, lread, bufs,
                   tasks, spawned, callers, panicked>>
    /\ UNCHANGED eapVars

\* the socket is bound; variant 2 assigns a fresh wait group
Listen ==
    /\ Running
    /\ lpc = "idle"
    /\ conn' = "open"
    /\ lpc' = "check"
    /\ wgAssigned' = TRUE
    /\ wgCount' = IF variant = 2 THEN 0 ELSE wgCount
    /\ UNCHANGED <<variant, doneChan, lret, lerr, lread, bufs, tasks, spawned,
                   callers, panicked>>
    /\ UNCHANGED eapVars

\* select { case <-done: return nil; default: }, the deferred conn.Close()
\* running on return
LoopCheckDone ==
    /\ Running
    /\ lpc = "check"
    /\ doneChan = "closed"
    /\ lpc' = "returned"
    /\ lret' = "nil"
    /\ lerr' = "done"
    /\ conn' = "closed"
    /\ UNCHANGED <<variant, doneChan, wgAssigned, wgCount, lread, bufs, tasks,
                   spawned, callers, panicked>>
    /\ UNCHANGED eapVars

\* a loop that makes its buffer once, before the first read
makeOnce(n) == 1

\* b := make([]byte, 4096): a buffer no request goroutine holds. n
\* goroutines have been started, holding the buffers 1..n at most; a buffer
\* made for a read that timed out is never written, and is counted as made
\* again
make(n) == n + 1

\* the select's default case, then conn.SetDeadline and b := make(...)
LoopCheckDefault ==
    /\ Running
    /\ lpc = "check"
    /\ doneChan # "closed"
    /\ doneChan' = IF variant = 2 THEN getDoneChanLocked(doneChan) ELSE doneChan
    /\ lread' = [b |-> make(spawned), addr |-> Nil]
    /\ lpc' = "read"
    /\ UNCHANGED <<variant, wgAssigned, wgCount, conn, lret, lerr, bufs, tasks,
                   spawned, callers, panicked>>
    /\ UNCHANGED eapVars

\* what conn.ReadFrom(b) may return
ReadResults == {"timeout", "error", "datagram"}

\* a loop that returns the timeout as it returns any other error
AfterReadNoTimeoutTest(r) == IF r = "datagram" THEN "spawn" ELSE "returned"

\* where the loop goes once ReadFrom returned r: a timeout continues, any
\* other error returns, a datagram is dispatched
AfterRead(r) ==
    IF r = "timeout" THEN "check"
    ELSE IF r = "error" THEN "returned"
    ELSE "spawn"

\* n, addr, err := conn.ReadFrom(b) returns r; a datagram is the next one
\* the socket delivers, written to b; a return runs the deferred conn.Close()
ReadFrom(r) ==
    /\ Running
    /\ lpc = "read"
    /\ r = "datagram" => spawned < MaxTasks
    /\ LET next == AfterRead(r)
       IN  /\ lpc' = next
           /\ lret' = IF next = "returned" THEN "err" ELSE lret
           /\ lerr' = IF next = "returned" THEN r ELSE lerr
           /\ conn' = IF next = "returned" THEN "closed" ELSE conn
           /\ lread' = IF next = "spawn"
                       THEN [lread EXCEPT !.addr = Sender(spawned + 1)]
                       ELSE NoRead
    /\ bufs' = IF r = "datagram"
               THEN [bufs EXCEPT ![lread.b] = Payload(spawned + 1)]
               ELSE bufs
    /\ UNCHANGED <<variant, doneChan, wgAssigned, wgCount, tasks, spawned,
                   callers, panicked>>
    /\ UNCHANGED eapVars

\* ReadFrom hits the 2 second deadline: continue
ReadTimeout == ReadFrom("timeout")

\* ReadFrom fails otherwise: return err
ReadError == ReadFrom("error")

\* ReadFrom returns a datagram
ReadDatagram == ReadFrom("datagram")

\* a loop whose next iteration starts at the read, past the select
AfterSpawnSkipsSelect == "read"

\* the end of the for body: the next iteration starts at the select
AfterSpawn == "check"

\* s.waitGroup.Add(1); go func(p, remoteAddr) {...}(b[:n], addr)
Spawn ==
    /\ Running
    /\ lpc = "spawn"
    /\ wgCount' = wgCount + 1
    /\ spawned' = spawned + 1
    /\ tasks' = [tasks EXCEPT ![spawned + 1].pc = "secret",
                              ![spawned + 1].p = lread.b,
                              ![spawned + 1].addr = lread.addr]
    /\ lpc' = AfterSpawn
    /\ lread' = IF AfterSpawn = "read" THEN [lread EXCEPT !.addr = Nil] ELSE NoRead
    /\ UNCHANGED <<variant, doneChan, wgAssigned, conn, lret, lerr, bufs,
                   callers, panicked>>
    /\ UNCHANGED eapVars

----------------------------------------------------------------------------
(* The request goroutine: go func(p, addr) of ListenAndServe *)

\* what SecretSource may return: an error, an empty secret, a secret
SecretResults == {"err", "empty", "ok"}
\* what Parse may return
ParseResults == {"err", "ok"}
\* what packet.Encode() and conn.WriteTo may return
IOResults == {"err", "ok"}

\* where the goroutine goes once SecretSource returned r: variant 1 checks
\* only the error, variants 2 and 3 also return on len(secret) == 0
AfterSecret(v, r) ==
    IF r = "err" THEN "done"
    ELSE IF r = "empty" /\ v # 1 THEN "done"
    ELSE "parse"

\* a goroutine that goes on to the handler whatever Parse returned
AfterParseIgnoresError(r) == "handle"

\* where the goroutine goes once Parse returned r
AfterParse(r) == IF r = "err" THEN "done" ELSE "handle"

\* responseWriter.Write / Server.Send: the number of datagrams put on the
\* socket, WriteTo being reached only if Encode succeeded
Write(enc, wr) == IF enc = "ok" /\ wr = "ok" THEN 1 ELSE 0

\* r.conn.WriteTo(encoded, r.addr): the addresses sent to, after n datagrams
\* more went to addr
WriteTo(sent, addr, n) == IF n > 0 THEN sent \cup {addr} ELSE sent

\* what WriteTo may return on the socket as it is: a closed socket fails
WriteToResults == IF conn = "open" THEN IOResults ELSE {"err"}

\* a Done() at the end of the goroutine's body instead of a deferred one: the
\* early returns skip it
DoneNotDeferred(t, next) ==
    IF next = "done" /\ tasks[t].pc = "serving" THEN wgCount - 1 ELSE wgCount

\* defer s.waitGroup.Done(), run as the goroutine returns
Done(t, next) == IF next = "done" THEN wgCount - 1 ELSE wgCount

\* secret, err := s.SecretSource(addr)
TaskSecret(t) ==
    /\ Running
    /\ tasks[t].pc = "secret"
    /\ \E r \in SecretResults :
        LET next == AfterSecret(variant, r)
        IN  /\ tasks' = [tasks EXCEPT ![t].sec = r, ![t].pc = next]
            /\ wgCount' = Done(t, next)
    /\ UNCHANGED <<variant, doneChan, wgAssigned, conn, lpc, lret, lerr,
                   lread, bufs, spawned, callers, panicked>>
    /\ UNCHANGED eapVars

\* pac, err := Parse(p, secret)
TaskParse(t) ==
    /\ Running
    /\ tasks[t].pc = "parse"
    /\ \E r \in ParseResults :
        LET next == AfterParse(r)
        IN  /\ tasks' = [tasks EXCEPT ![t].parsed = TRUE, ![t].par = r,
                                      ![t].bytes = bufs[tasks[t].p],
                                      ![t].pc = next]
            /\ wgCount' = Done(t, next)
    /\ UNCHANGED <<variant, doneChan, wgAssigned, conn, lpc, lret, lerr,
                   lread, bufs, spawned, callers, panicked>>
    /\ UNCHANGED eapVars

\* the handler is entered: s.service.RadiusHandle(pac) in variant 1,
\* s.Handler.ServeRADIUS(&response, &request) in variants 2 and 3
TaskHandle(t) ==
    /\ Running
    /\ tasks[t].pc = "handle"
    /\ tasks' = [tasks EXCEPT ![t].handled = @ + 1, ![t].pc = "serving"]
    /\ UNCHANGED <<variant, doneChan, wgAssigned, wgCount, conn, lpc, lret,
                   lerr, lread, bufs, spawned, callers, panicked>>
    /\ UNCHANGED eapVars

\* variant 1: RadiusHandle has returned a packet, s.Send(conn, addr, packet)
\* is called once and the goroutine returns
TaskSend(t) ==
    /\ Running
    /\ variant = 1
    /\ tasks[t].pc = "serving"
    /\ \E enc \in IOResults, wr \in WriteToResults :
        tasks' = [tasks EXCEPT ![t].calls = @ + 1,
                               ![t].written = @ + Write(enc, wr),
                               ![t].sentTo = WriteTo(@, tasks[t].addr,
                                                     Write(enc, wr)),
                               ![t].pc = "done"]
    /\ wgCount' = Done(t, "done")
    /\ UNCHANGED <<variant, doneChan, wgAssigned, conn, lpc, lret, lerr,
                   lread, bufs, spawned, callers, panicked>>
    /\ UNCHANGED eapVars

\* variants 2 and 3: the handler calls response.Write(packet)
TaskWrite(t) ==
    /\ Running
    /\ variant # 1
    /\ tasks[t].pc = "serving"
    /\ tasks[t].calls < MaxWrites
    /\ \E enc \in IOResults, wr \in WriteToResults :
        tasks' = [tasks EXCEPT ![t].calls = @ + 1,
                               ![t].written = @ + Write(enc, wr),
                               ![t].sentTo = WriteTo(@, tasks[t].addr,
                                                     Write(enc, wr))]
    /\ UNCHANGED <<variant, doneChan, wgAssigned, wgCount, conn, lpc, lret,
                   lerr, lread, bufs, spawned, callers, panicked>>
    /\ UNCHANGED eapVars

\* variants 2 and 3: ServeRADIUS returns and the goroutine with it
TaskReturn(t) ==
    /\ Running
    /\ variant # 1
    /\ tasks[t].pc = "serving"
    /\ tasks' = [tasks EXCEPT ![t].pc = "done"]
    /\ wgCount' = Done(t, "done")
    /\ UNCHANGED <<variant, doneChan, wgAssigned, conn, lpc, lret, lerr,
                   lread, bufs, spawned, callers, panicked>>
    /\ UNCHANGED eapVars

----------------------------------------------------------------------------
(* Stop() of variants 1 and 3 *)

\* the request goroutines started so far
Started == 1..spawned

\* a Wait that returns whatever the counter is
WaitIgnoresCounter == TRUE

\* s.waitGroup.Wait() returns: the counter is zero
Wait == wgCount = 0

\* close(s.ch); closing a closed channel panics
StopClose(c) ==
    /\ Running
    /\ variant \in {1, 3}
    /\ callers[c].pc = "idle"
    /\ IF close(doneChan) = "panic"
       THEN /\ panicked' = "close of closed channel"
            /\ UNCHANGED <<doneChan, callers>>
       ELSE /\ doneChan' = close(doneChan)
            /\ callers' = [callers EXCEPT ![c].pc = "wait",
                                          ![c].pre = Started,
                                          ![c].listening = (conn = "open")]
            /\ UNCHANGED panicked
    /\ UNCHANGED <<variant, wgAssigned, wgCount, conn, lpc, lret, lerr, lread,
                   bufs, tasks, spawned>>
    /\ UNCHANGED eapVars

\* s.waitGroup.Wait() returns and Stop with it
StopWait(c) ==
    /\ Running
    /\ variant \in {1, 3}
    /\ callers[c].pc = "wait"
    /\ Wait
    /\ callers' = [callers EXCEPT ![c].pc = "returned", ![c].res = "nil"]
    /\ UNCHANGED <<variant, doneChan, wgAssigned, wgCount, conn, lpc, lret,
                   lerr, lread, bufs, tasks, spawned, panicked>>
    /\ UNCHANGED eapVars

----------------------------------------------------------------------------
(* Shutdown(ctx) of variant 2 *)

\* s.mu.Lock(); s.closeDoneChanLocked(); s.mu.Unlock();
\* waitChan := make(chan struct{}, 1); go func() { ... }()
ShutdownClose(c) ==
    /\ Running
    /\ variant = 2
    /\ callers[c].pc = "idle"
    /\ IF closeDoneChanLocked(doneChan) = "panic"
       THEN /\ panicked' = "close of closed channel"
            /\ UNCHANGED <<doneChan, callers>>
       ELSE /\ doneChan' = closeDoneChanLocked(doneChan)
            /\ callers' = [callers EXCEPT ![c].pc = "select",
                                          ![c].pre = Started,
                                          ![c].listening = (conn = "open"),
                                          ![c].wpc = "wait"]
            /\ UNCHANGED panicked
    /\ UNCHANGED <<variant, wgAssigned, wgCount, conn, lpc, lret, lerr, lread,
                   bufs, tasks, spawned>>
    /\ UNCHANGED eapVars

\* the waiter goroutine: s.waitGroup.Wait() on a nil wait group panics
WaiterPanic(c) ==
    /\ Running
    /\ callers[c].wpc = "wait"
    /\ ~wgAssigned
    /\ panicked' = "nil pointer dereference"
    /\ UNCHANGED <<variant, doneChan, wgAssigned, wgCount, conn, lpc, lret,
                   lerr, lread, bufs, tasks, spawned, callers>>
    /\ UNCHANGED eapVars

\* the waiter goroutine: s.waitGroup.Wait(); waitChan <- struct{}{}
WaiterSend(c) ==
    /\ Running
    /\ callers[c].wpc = "wait"
    /\ wgAssigned
    /\ Wait
    /\ callers' = [callers EXCEPT ![c].wpc = "sent", ![c].waitChan = 1]
    /\ UNCHANGED <<variant, doneChan, wgAssigned, wgCount, conn, lpc, lret,
                   lerr, lread, bufs, tasks, spawned, panicked>>
    /\ UNCHANGED eapVars

\* the context given to Shutdown is cancelled or reaches its deadline; only
\* Shutdown's select reads the context, so a context that was done before
\* the call is one that is done before the select runs
CtxDone(c) ==
    /\ Running
    /\ variant = 2
    /\ callers[c].pc = "select"
    /\ ~callers[c].ctxDone
    /\ callers' = [callers EXCEPT ![c].ctxDone = TRUE]
    /\ UNCHANGED <<variant, doneChan, wgAssigned, wgCount, conn, lpc, lret,
                   lerr, lread, bufs, tasks, spawned, panicked>>
    /\ UNCHANGED eapVars

\* the cases of Shutdown's select that are ready, by what each returns:
\* case <-ctx.Done(): return ctx.Err(); case <-waitChan: return nil
SelectReady(call) ==
    (IF call.ctxDone THEN {"err"} ELSE {})
        \cup (IF call.waitChan = 1 THEN {"nil"} ELSE {})

\* select takes one of the ready cases and Shutdown returns
ShutdownSelect(c) ==
    /\ Running
    /\ variant = 2
    /\ callers[c].pc = "select"
    /\ \E r \in SelectReady(callers[c]) :
        callers' = [callers EXCEPT ![c].pc = "returned", ![c].res = r,
                                   ![c].waitChan = IF r = "nil" THEN 0 ELSE @]
    /\ UNCHANGED <<variant, doneChan, wgAssigned, wgCount, conn, lpc, lret,
                   lerr, lread, bufs, tasks, spawned, panicked>>
    /\ UNCHANGED eapVars

----------------------------------------------------------------------------
(* The server as a whole *)

Next ==
    \/ ListenFail
    \/ Listen
    \/ LoopCheckDone
    \/ LoopCheckDefault
    \/ ReadTimeout
    \/ ReadError
    \/ ReadDatagram
    \/ Spawn
    \/ \E t \in TaskIds : TaskSecret(t)
    \/ \E t \in TaskIds : TaskParse(t)
    \/ \E t \in TaskIds : TaskHandle(t)
    \/ \E t \in TaskIds : TaskSend(t)
    \/ \E t \in TaskIds : TaskWrite(t)
    \/ \E t \in TaskIds : TaskReturn(t)
    \/ \E c \in Callers : StopClose(c)
    \/ \E c \in Callers : StopWait(c)
    \/ \E c \in Callers : ShutdownClose(c)
    \/ \E c \in Callers : WaiterPanic(c)
    \/ \E c \in Callers : WaiterSend(c)
    \/ \E c \in Callers : CtxDone(c)
    \/ \E c \in Callers : ShutdownSelect(c)

Spec == Init /\ [][Next]_vars

\* the scheduler runs every runnable goroutine: each request goroutine takes
\* its next step, its handler returns, and a Shutdown whose select has a
\* ready case takes one
TaskStep(t) ==
    \/ TaskSecret(t)
    \/ TaskParse(t)
    \/ TaskHandle(t)
    \/ TaskSend(t)
    \/ TaskReturn(t)

\* one Shutdown(ctx) call on a variant 2 server
DrainCaller == "c1"

DrainInit ==
    /\ NewServer(2)
    /\ EapIdle

DrainNext ==
    \/ ListenFail
    \/ Listen
    \/ LoopCheckDone
    \/ LoopCheckDefault
    \/ ReadTimeout
    \/ ReadError
    \/ ReadDatagram
    \/ Spawn
    \/ \E t \in TaskIds : TaskSecret(t)
    \/ \E t \in TaskIds : TaskParse(t)
    \/ \E t \in TaskIds : TaskHandle(t)
    \/ \E t \in TaskIds : TaskWrite(t)
    \/ \E t \in TaskIds : TaskReturn(t)
    \/ ShutdownClose(DrainCaller)
    \/ WaiterPanic(DrainCaller)
    \/ WaiterSend(DrainCaller)
    \/ CtxDone(DrainCaller)
    \/ ShutdownSelect(DrainCaller)

Fairness ==
    /\ \A t \in TaskIds : WF_vars(TaskStep(t))
    /\ WF_vars(ShutdownSelect(DrainCaller))

\* a variant 2 server with one Shutdown(ctx) call, under the scheduler's
\* fairness
DrainSpec == DrainInit /\ [][DrainNext]_vars /\ Fairness

----------------------------------------------------------------------------
(* Properties of the dispatch server *)

Returned(c) == callers[c].pc = "returned"
ReturnedNil(c) == Returned(c) /\ callers[c].res = "nil"

\* C1: when Stop() has returned, or Shutdown(ctx) has returned nil, every
\* request goroutine that had been started before the call has finished (has
\* run its deferred waitGroup.Done()); none of them is still in its secret
\* lookup, Parse or handler.
C1_GracefulDrain ==
    \A c \in Callers :
        ReturnedNil(c) => \A t \in callers[c].pre : tasks[t].pc = "done"

\* a Stop()/Shutdown(ctx) that was called with a request goroutine in flight
\* has returned nil
C1_Witness ==
    \E c \in Callers :
        /\ ReturnedNil(c)
        /\ callers[c].pre # {}
        /\ \E t \in callers[c].pre : tasks[t].handled = 1

\* C2: in each of the three Server definitions, a goroutine whose
\* SecretSource returned an empty secret with a nil error ends without
\* calling Parse, without invoking the handler and without writing.
C2_EmptySecretDiscards ==
    \A t \in TaskIds :
        tasks[t].sec = "empty" =>
            /\ ~tasks[t].parsed
            /\ tasks[t].handled = 0
            /\ tasks[t].written = 0

\* C3: the handler is invoked at most once per datagram, and only if
\* SecretSource returned no error and Parse returned no error; a goroutine
\* whose secret lookup or Parse failed has finished with no handler call and
\* nothing written to the socket.
C3_SilenceOnBadInput ==
    \A t \in TaskIds :
        /\ tasks[t].handled <= 1
        /\ tasks[t].handled = 1 =>
              tasks[t].sec \in {"ok", "empty"} /\ tasks[t].par = "ok"
        /\ (tasks[t].sec = "err" \/ tasks[t].par = "err") =>
              /\ tasks[t].pc = "done"
              /\ tasks[t].handled = 0
              /\ tasks[t].calls = 0
              /\ tasks[t].written = 0

\* one datagram was dropped on a Parse error, another on a secret error, or
\* was handled and answered
C3_Witness ==
    \E t, u \in TaskIds :
        /\ tasks[t].par = "err"
        /\ tasks[t].pc = "done"
        /\ \/ tasks[u].sec = "err"
           \/ tasks[u].handled = 1 /\ tasks[u].written > 0

\* C4: the listening socket is never closed while a request goroutine
\* spawned on it is still in flight.
C4_DrainBeforeClosed ==
    conn = "closed" => \A t \in TaskIds : ~InFlight(t)

\* C5: whenever Stop() has returned, or Shutdown(ctx) has returned nil, on a
\* server whose ListenAndServe was running, the listening socket is closed.
C5_ClosedWhenWaitReturns ==
    \A c \in Callers :
        (ReturnedNil(c) /\ callers[c].listening) => conn = "closed"

\* C7: on every path by which ListenAndServe returns, the returned error is
\* non-nil.
C7_AlwaysNonNilError ==
    lpc = "returned" => lret = "err"

\* Shutdown's select is about to run with its context done while a request
\* goroutine is in flight
DeadlineDuringDrain(c) ==
    /\ callers[c].pc = "select"
    /\ callers[c].ctxDone
    /\ \E t \in TaskIds : InFlight(t)

\* C6: if the context given to Shutdown is done while a request goroutine
\* is still in flight, Shutdown returns ctx.Err() (not nil) without waiting
\* for it; the return leaves every goroutine as it was (nothing is
\* cancelled), and each goroutine in flight still runs to completion.
C6_DeadlineDuringDrain ==
    /\ [][\A c \in Callers :
            (DeadlineDuringDrain(c) /\ Returned(c)') =>
                /\ callers'[c].res = "err"
                /\ tasks' = tasks
                /\ wgCount' = wgCount]_vars
    /\ \A c \in Callers : DeadlineDuringDrain(c) ~> Returned(c)
    /\ \A c \in Callers : \A t \in TaskIds :
            (callers[c].res = "err" /\ InFlight(t)) ~> (tasks[t].pc = "done")

\* the same deadline, a goroutine started before the Shutdown call being in
\* flight: the waiter is then still inside Wait() and waitChan is empty
DeadlineOnEarlierRequest(c) ==
    /\ callers[c].pc = "select"
    /\ callers[c].ctxDone
    /\ \E t \in callers[c].pre : InFlight(t)

\* For the goroutines started before the call the statement of C6 holds:
\* what breaks it is a goroutine the accept loop starts after the waiter's
\* Wait() has returned.
DrainDeadlineOnEarlierRequests ==
    /\ [][\A c \in Callers :
            (DeadlineOnEarlierRequest(c) /\ Returned(c)') =>
                /\ callers'[c].res = "err"
                /\ tasks' = tasks
                /\ wgCount' = wgCount]_vars
    /\ \A c \in Callers : DeadlineOnEarlierRequest(c) ~> Returned(c)
    /\ \A c \in Callers : \A t \in TaskIds :
            (callers[c].res = "err" /\ InFlight(t)) ~> (tasks[t].pc = "done")

\* Shutdown has returned ctx.Err() and a request goroutine started before
\* the call is still inside its handler
DrainDeadlineReached ==
    \E c \in Callers :
        /\ Returned(c)
        /\ callers[c].res = "err"
        /\ \E t \in callers[c].pre : tasks[t].pc = "serving"

\* C12: once Stop() has returned, or Shutdown(ctx) has returned nil, the
\* accept loop starts no further request goroutine: no step taken after the
\* waiting call returned is waitGroup.Add(1) and go func.
C12_NoDispatchAfterReturn ==
    [][(\E c \in Callers : ReturnedNil(c)) => spawned' = spawned]_vars

\* a step of a request goroutine that is already running
TaskStepTaken ==
    \E t \in TaskIds : tasks[t].pc # "none" /\ tasks'[t] # tasks[t]

\* C13: ListenAndServe leaves its accept loop only when it observed the done
\* channel closed (returning nil) or when ReadFrom returned an error that is
\* not a timeout; a read timeout never makes it return, and no step of a
\* request goroutine (SecretSource error, empty secret, Parse error, an error
\* of Write/Send) makes it return.
C13_AcceptLoopExits ==
    /\ [](lpc = "returned" =>
            \/ lerr = "listen" /\ lret = "err" /\ conn = "none" /\ spawned = 0
            \/ lerr = "done" /\ lret = "nil" /\ doneChan = "closed"
            \/ lerr = "error" /\ lret = "err")
    /\ [][TaskStepTaken => (lpc' = lpc /\ lret' = lret /\ lerr' = lerr)]_vars

\* the accept loop is still reading after one request goroutine ended on a
\* secret error or an empty secret and another on a Parse error or a failed
\* write
C13_Witness ==
    /\ lpc = "read"
    /\ spawned = MaxTasks
    /\ \E t, u \in TaskIds :
        /\ tasks[t].pc = "done"
        /\ tasks[t].sec \in {"err", "empty"}
        /\ tasks[u].pc = "done"
        /\ \/ tasks[u].par = "err"
           \/ tasks[u].calls > tasks[u].written

\* C14: with request goroutines in flight concurrently, each one parses
\* exactly the bytes of the datagram it was started for: the buffer it holds
\* keeps those bytes whatever the accept loop reads later, a fresh buffer
\* being made for every read; and every datagram its response writer sends
\* goes to the address its own datagram came from.
C14_TaskIsolation ==
    \A t \in TaskIds :
        /\ tasks[t].pc # "none" =>
              /\ bufs[tasks[t].p] = Payload(t)
              /\ tasks[t].addr = Sender(t)
        /\ tasks[t].parsed => tasks[t].bytes = Payload(t)
        /\ tasks[t].sentTo \subseteq {Sender(t)}

\* two request goroutines are in their handlers at once, the first having
\* parsed its datagram after the accept loop read the second, and both have
\* sent a response
C14_Witness ==
    \E t, u \in TaskIds :
        /\ t < u
        /\ tasks[t].pc = "serving"
        /\ tasks[u].pc = "serving"
        /\ tasks[t].sentTo # {}
        /\ tasks[u].sentTo # {}
        /\ tasks[t].sentTo # tasks[u].sentTo

\* the request goroutines started after call c closed the done channel
StartedAfter(c) == Started \ callers[c].pre

\* C16: once Stop or Shutdown has closed the done channel, the accept loop
\* begins no further ReadFrom: the one it may be in completes, so at most
\* one request goroutine is started after the signal, and at its next check
\* the loop can only return.
C16_BoundedReaction ==
    /\ [](\A c \in Callers :
            callers[c].pc # "idle" => Cardinality(StartedAfter(c)) <= 1)
    /\ [][doneChan = "closed" => ~(lpc # "read" /\ lpc' = "read")]_vars
    /\ [][(doneChan = "closed" /\ lpc = "check" /\ lpc' # lpc) =>
            (lpc' = "returned" /\ lret' = "nil")]_vars

\* a request goroutine was started after the done channel was closed, and
\* the accept loop has then returned nil
C16_Witness ==
    /\ lpc = "returned"
    /\ lret = "nil"
    /\ \E c \in Callers : callers[c].pc # "idle" /\ StartedAfter(c) # {}

\* C17: the wait group's counter is the number of request goroutines started
\* and not yet finished: Add(1) comes with each start, Done() with each way
\* out of the goroutine (secret error, empty secret, Parse error, handler
\* returned), and the counter is never negative.
C17_WaitGroupAccounting ==
    /\ wgCount = Cardinality({t \in TaskIds : InFlight(t)})
    /\ wgCount >= 0

\* two request goroutines have been started; one left on its secret, the
\* other on Parse or after its handler, and the counter is back to zero
C17_Witness ==
    /\ wgCount = 0
    /\ \E t, u \in TaskIds :
        /\ tasks[t].pc = "done" /\ ~tasks[t].parsed
        /\ tasks[u].pc = "done" /\ tasks[u].parsed

\* the states of the done channel in the order it goes through them
ChanOrder == [nil |-> 0, open |-> 1, closed |-> 2]

\* C18: under any number of Shutdown calls, one after another or at once,
\* interleaved with the accept loop's getDoneChan, the done channel of the
\* Shutdown-based server is made once and closed once: close is never run
\* on the closed channel, and the channel never again becomes nil or open
\* once it was made or closed, so every Shutdown and every check of the
\* accept loop has the same channel.
C18_DoneChanClosedOnce ==
    /\ [](variant = 2 => panicked # "close of closed channel")
    /\ [][variant = 2 => ChanOrder[doneChan'] >= ChanOrder[doneChan]]_vars
    /\ [](variant = 2 =>
            \A c \in Callers : callers[c].pc # "idle" => doneChan = "closed")

\* both callers have called Shutdown on a server whose accept loop had made
\* the done channel, and the loop has returned on it
C18_Witness ==
    /\ variant = 2
    /\ \A c \in Callers : callers[c].pc # "idle"
    /\ lpc = "returned"
    /\ lerr = "done"
    /\ spawned > 0

\* C19: in the two Stop-based Server definitions a second call of Stop() on
\* the same server, after the first or at the same time, returns normally:
\* it does not end the process with a panic.
C19_StopRepeatable ==
    variant \in {1, 3} => panicked = "none"

\* C20: on a Shutdown-based server on which ListenAndServe has not yet run,
\* or is about to start, Shutdown(ctx) returns nil or ctx.Err() without
\* crashing: its waiter never calls Wait() on a wait group that is not
\* assigned.
C20_ShutdownOnIdleServer ==
    variant = 2 => panicked # "nil pointer dereference"

\* what C20 says of a ListenAndServe called after such a Shutdown: it
\* observes the closed done channel and returns nil without dispatching
IdleShutdownThenListen ==
    [][(variant = 2 /\ lpc = "idle" /\ doneChan = "closed" /\ spawned = 0) =>
            (spawned' = 0 /\ lpc' \in {"idle", "check", "returned"})]_vars

----------------------------------------------------------------------------
(* responseWriter.Write and Server.Send, call by call *)

\* number of Write/Send calls followed on one response writer
MaxCalls == 3
\* the packets a handler passes to Write
Packets == {"accept", "reject"}

\* the datagram packet.Encode() returns for a packet when it succeeds
Encoded(packet) == [encoded |-> packet]

\* a Write that goes on to WriteTo with whatever Encode left, and drops the
\* error
WriteIgnoresEncodeError(packet, enc, wr) ==
    [packet |-> packet, enc |-> enc, wr |-> wr,
     writeTo |-> TRUE,
     sent |-> IF wr = "ok" THEN <<Encoded(packet)>> ELSE <<>>,
     ret |-> IF wr = "err" THEN "WriteTo error" ELSE "nil"]

\* one call of responseWriter.Write(packet) / Server.Send(conn, addr, packet),
\* Encode returning enc and WriteTo, if it is called, wr: whether WriteTo was
\* called, the datagrams put on the socket, the error returned
responseWriterWrite(packet, enc, wr) ==
    [packet |-> packet, enc |-> enc, wr |-> wr,
     writeTo |-> enc = "ok",
     sent |-> IF Write(enc, wr) = 1 THEN <<Encoded(packet)>> ELSE <<>>,
     ret |-> IF enc = "err" THEN "Encode error"
             ELSE IF wr = "err" THEN "WriteTo error"
             ELSE "nil"]

\* a response writer on the open socket (Send in variant 1), nothing sent
WriteInit ==
    /\ \E v \in {1, 2, 3} : NewServer(v)
    /\ eapPc = "idle"
    /\ eapIn = <<>>
    /\ eapArgs = <<>>
    /\ eapOut = [kind |-> "none"]
    /\ AttrIdle
    /\ writer = [conn |-> "open", log |-> <<>>, wire |-> <<>>]

\* the call, on the socket as it is: WriteTo on a closed socket fails
WriterCall ==
    /\ Len(writer.log) < MaxCalls
    /\ \E packet \in Packets, enc \in IOResults,
          wr \in (IF writer.conn = "open" THEN IOResults ELSE {"err"}) :
        LET call == responseWriterWrite(packet, enc, wr)
        IN  writer' = [writer EXCEPT !.log = Append(@, call),
                                     !.wire = @ \o call.sent]

\* variants 2 and 3: the handler calls response.Write(packet)
WriterWrite ==
    /\ variant # 1
    /\ WriterCall
    /\ UNCHANGED <<eapPc, eapIn, eapArgs, eapOut, attrCall, attrOut>>
    /\ UNCHANGED serverVars

\* variant 1: s.Send(conn, addr, packet)
WriterSend ==
    /\ variant = 1
    /\ WriterCall
    /\ UNCHANGED <<eapPc, eapIn, eapArgs, eapOut, attrCall, attrOut>>
    /\ UNCHANGED serverVars

\* ListenAndServe returns meanwhile: its deferred conn.Close()
WriterConnClose ==
    /\ writer.conn = "open"
    /\ writer' = [writer EXCEPT !.conn = "closed"]
    /\ UNCHANGED <<eapPc, eapIn, eapArgs, eapOut, attrCall, attrOut>>
    /\ UNCHANGED serverVars

WriteNext ==
    \/ WriterWrite
    \/ WriterSend
    \/ WriterConnClose

WriteSpec == WriteInit /\ [][WriteNext]_vars

RECURSIVE Flatten(_)
\* the concatenation of a sequence of sequences
Flatten(q) == IF q = <<>> THEN <<>> ELSE Head(q) \o Flatten(Tail(q))

\* C15: each call of responseWriter.Write (Server.Send in variant 1) puts
\* exactly one complete encoded datagram on the socket or none; if Encode
\* fails, WriteTo is not called and the error is returned; an error of
\* WriteTo (as on a closed socket) is returned; and the calls are
\* independent: the socket has carried, in order, the datagram of every call
\* that succeeded, whatever the calls before and after it did.
C15_AllOrNothingSend ==
    /\ \A i \in 1..Len(writer.log) :
        LET call == writer.log[i]
        IN  /\ call.sent \in {<<>>, <<Encoded(call.packet)>>}
            /\ call.enc = "err" =>
                  /\ ~call.writeTo
                  /\ call.sent = <<>>
                  /\ call.ret = "Encode error"
            /\ (call.enc = "ok" /\ call.wr = "err") =>
                  /\ call.writeTo
                  /\ call.sent = <<>>
                  /\ call.ret = "WriteTo error"
            /\ (call.enc = "ok" /\ call.wr = "ok") =>
                  /\ call.sent = <<Encoded(call.packet)>>
                  /\ call.ret = "nil"
    /\ writer.wire = Flatten([i \in 1..Len(writer.log) |-> writer.log[i].sent])

\* a writer whose Encode failed in one call, whose WriteTo failed on the
\* closed socket in another, and which sent a datagram in between
C15_Witness ==
    /\ writer.conn = "closed"
    /\ \E i, j, k \in 1..Len(writer.log) :
        /\ i < j /\ j < k
        /\ writer.log[i].enc = "err"
        /\ writer.log[j].ret = "nil"
        /\ writer.log[k].ret = "WriteTo error"
    /\ Len(writer.wire) = 1

----------------------------------------------------------------------------
(* The EAP sub-codec of attribute.go *)

\* longest attribute value given to EAPMessage()
MaxAttrLen == 7
\* longest enumerated Data given to NewEAPMessage()
MaxDataLen == 3
\* the byte values the inputs are drawn from: as a length byte they give an
\* embedded length of 0, of 4 (under the header's 5), of 5, of 6 and of 255
ByteSample == {0, 4, 5, 6, 255}
\* the longest Data an attribute can carry (253 - 5), enumerated by pattern
LongDataLens == {248}

SeqsUpTo(S, n) == UNION {[1..k -> S] : k \in 0..n}

\* binary.BigEndian.Uint16
Uint16(hi, lo) == hi * 256 + lo

\* binary.BigEndian.PutUint16 of uint16(n): the two bytes written
PutUint16(n) == <<((n % 65536) \div 256), (n % 65536) % 256>>

\* an EAPMessage() without the check of the embedded length against len(a):
\* Data runs to the end of the value
EAPMessageNoLengthGuard(a) ==
    IF Len(a) < 5
    THEN [kind |-> "err"]
    ELSE LET length == Uint16(a[3], a[4])
         IN  IF length < 5
             THEN [kind |-> "panic"]
             ELSE [kind |-> "ok", Code |-> a[1], Identifier |-> a[2],
                   Type |-> a[5],
                   Data |-> SubSeq(a, 6, IF length < Len(a) THEN length ELSE Len(a))]

\* Attribute.EAPMessage(): an error, a message, or the runtime panic of the
\* slice expression a[5:length] when length < 5
EAPMessage(a) ==
    IF Len(a) < 5
    THEN [kind |-> "err"]
    ELSE LET length == Uint16(a[3], a[4])
         IN  IF Len(a) < length
             THEN [kind |-> "err"]
             ELSE IF length < 5
             THEN [kind |-> "panic"]
             ELSE [kind |-> "ok", Code |-> a[1], Identifier |-> a[2],
                   Type |-> a[5], Data |-> SubSeq(a, 6, length)]

\* a NewEAPMessage that embeds len(Data) instead of len(Data)+5
NewEAPMessageDataLength(Code, Identifier, Type, Data) ==
    <<Code, Identifier>> \o PutUint16(Len(Data)) \o <<Type>> \o Data

\* NewEAPMessage(Code, Identifier, Type, Data)
NewEAPMessage(Code, Identifier, Type, Data) ==
    <<Code, Identifier>> \o PutUint16(Len(Data) + 5) \o <<Type>> \o Data

\* the attribute values EAPMessage() is applied to
AttrValues == SeqsUpTo(ByteSample, MaxAttrLen)

\* the Data values NewEAPMessage() is applied to
DataValues ==
    SeqsUpTo({0, 255}, MaxDataLen)
        \cup {[i \in 1..n |-> IF i % 2 = 0 THEN 255 ELSE i % 256] : n \in LongDataLens}

\* the arguments NewEAPMessage() is applied to
Messages ==
    [Code : {1, 3}, Identifier : {0, 255}, Type : {0, 1}, Data : DataValues]

EapInit ==
    /\ NewServer(3)
    /\ AttrIdle
    /\ WriterIdle
    /\ eapOut = [kind |-> "none"]
    /\ \/ /\ eapPc = "attribute"
          /\ eapIn \in AttrValues
          /\ eapArgs = <<>>
       \/ /\ eapPc = "message"
          /\ eapIn = <<>>
          /\ eapArgs \in Messages

\* eapAttribute.EAPMessage() on a received attribute value, or on the value
\* NewEAPMessage() built
EapDecode ==
    /\ eapPc \in {"attribute", "encoded"}
    /\ eapOut' = EAPMessage(eapIn)
    /\ eapPc' = IF eapPc = "attribute" THEN "decoded" ELSE "roundtrip"
    /\ UNCHANGED <<eapIn, eapArgs, attrCall, attrOut, writer>>
    /\ UNCHANGED serverVars

\* radius.NewEAPMessage(...)
EapEncode ==
    /\ eapPc = "message"
    /\ eapIn' = NewEAPMessage(eapArgs.Code, eapArgs.Identifier, eapArgs.Type,
                              eapArgs.Data)
    /\ eapPc' = "encoded"
    /\ UNCHANGED <<eapArgs, eapOut, attrCall, attrOut, writer>>
    /\ UNCHANGED serverVars

EapNext ==
    \/ EapDecode
    \/ EapEncode

EapSpec == EapInit /\ [][EapNext]_vars

----------------------------------------------------------------------------
(* Properties of the EAP sub-codec *)

\* the 2-byte big-endian length embedded in bytes 2-3 of a
Embedded(a) == a[3] * 256 + a[4]

EapDecoded == eapPc \in {"decoded", "roundtrip"}

\* C8: for every byte sequence, EAPMessage() returns a message or an error
\* and never panics; an input whose embedded length is less than 5 is
\* reported as an error.
C8_EapDecodeTotal ==
    EapDecoded =>
        /\ eapOut.kind \in {"ok", "err"}
        /\ (Len(eapIn) >= 4 /\ Embedded(eapIn) < 5) => eapOut.kind = "err"

\* C9: EAPMessage() returns an error for every input shorter than 5 bytes
\* and for every input whose embedded length is greater than the input's
\* length; when it succeeds, Data is exactly bytes 5 up to (not including)
\* the embedded length.
C9_EapOverreadGuard ==
    EapDecoded =>
        /\ Len(eapIn) < 5 => eapOut.kind = "err"
        /\ (Len(eapIn) >= 4 /\ Embedded(eapIn) > Len(eapIn)) =>
              eapOut.kind = "err"
        /\ eapOut.kind = "ok" =>
              /\ Embedded(eapIn) <= Len(eapIn)
              /\ Len(eapOut.Data) = Embedded(eapIn) - 5
              /\ \A i \in 1..Len(eapOut.Data) : eapOut.Data[i] = eapIn[5 + i]

\* a received value was decoded whose embedded length ends before the value
\* does, and its Data is not empty
C9_Witness ==
    /\ eapPc = "decoded"
    /\ eapOut.kind = "ok"
    /\ Len(eapOut.Data) > 0
    /\ Embedded(eapIn) < Len(eapIn)

\* C10: for Data of at most 248 bytes, NewEAPMessage yields 5+len(Data)
\* bytes whose embedded length is 5+len(Data), and EAPMessage() of them
\* succeeds and returns the same Code, Identifier, Type and Data.
C10_EapRoundTrip ==
    (eapPc \in {"encoded", "roundtrip"} /\ Len(eapArgs.Data) <= 248) =>
        /\ Len(eapIn) = 5 + Len(eapArgs.Data)
        /\ Embedded(eapIn) = 5 + Len(eapArgs.Data)
        /\ eapPc = "roundtrip" =>
              /\ eapOut.kind = "ok"
              /\ eapOut.Code = eapArgs.Code
              /\ eapOut.Identifier = eapArgs.Identifier
              /\ eapOut.Type = eapArgs.Type
              /\ eapOut.Data = eapArgs.Data

\* the README's EAP-Success reply (Code 3, Type 0, no Data) went round
C10_Witness ==
    /\ eapPc = "roundtrip"
    /\ eapArgs.Code = 3
    /\ eapArgs.Type = 0
    /\ eapArgs.Data = <<>>
    /\ eapOut.kind = "ok"

\* a message carrying 248 bytes of Data went round
C10_WitnessLong ==
    /\ eapPc = "roundtrip"
    /\ Len(eapArgs.Data) = 248
    /\ eapOut.kind = "ok"

----------------------------------------------------------------------------
(* The Attribute constructors of attribute.go *)

\* longest enumerated string or byte slice given to NewString / NewBytes
MaxValueLen == 2
\* the lengths around the 253 byte limit, enumerated by pattern
LongValueLens == {253, 254}
\* the Data lengths around the limit of 248 given to NewEAPMessage
LongEapDataLens == {248, 249}

\* a value of n bytes
Pattern(n) == [i \in 1..n |-> IF i % 2 = 0 THEN 255 ELSE i % 256]

Reverse(q) == [i \in 1..Len(q) |-> q[Len(q) + 1 - i]]

Zeros(n) == [i \in 1..n |-> 0]

\* integers are given by their base 256 digits, least significant first:
\* uint32 by 4 digits, uint64 and int64 (two's complement) by 8

\* binary.BigEndian.PutUint32 / PutUint64: most significant byte first
PutBigEndian(digits) == Reverse(digits)

\* binary.BigEndian.Uint32 / Uint64
BigEndian(bytes) == Reverse(bytes)

\* unix > math.MaxUint32, for the int64 unix
AboveMaxUint32(unix) == unix[8] < 128 /\ SubSeq(unix, 5, 8) # Zeros(4)

\* uint32(unix): the low 32 bits
ToUint32(unix) == SubSeq(unix, 1, 4)

\* int64(sec) of a uint32
FromUint32(sec) == sec \o Zeros(4)

\* the prefix of an IPv4 address in 16 byte form (net.v4InV6Prefix)
V4InV6Prefix == Zeros(10) \o <<255, 255>>

\* net.IP.To4: a 4 byte slice, or nil (here <<>>) if ip is no IPv4 address
To4(ip) ==
    IF Len(ip) = 4 THEN ip
    ELSE IF Len(ip) = 16 /\ SubSeq(ip, 1, 12) = V4InV6Prefix
    THEN SubSeq(ip, 13, 16)
    ELSE <<>>

\* net.IP.To16: a 16 byte slice, or nil (here <<>>)
To16(ip) ==
    IF Len(ip) = 4 THEN V4InV6Prefix \o ip
    ELSE IF Len(ip) = 16 THEN ip
    ELSE <<>>

AttrErr == [kind |-> "err"]
AttrOk(v) == [kind |-> "ok", value |-> v]

NewString(s) == IF Len(s) > 253 THEN AttrErr ELSE AttrOk(s)

NewBytes(b) == IF Len(b) > 253 THEN AttrErr ELSE AttrOk(b)

NewInt(i) == AttrOk(PutBigEndian(i))

NewInt64(i) == AttrOk(PutBigEndian(i))

NewTime(unix) ==
    IF AboveMaxUint32(unix) THEN AttrErr
    ELSE AttrOk(PutBigEndian(ToUint32(unix)))

NewIPAddr(a) ==
    LET a4 == To4(a)
    IN  IF a4 = <<>> THEN AttrErr ELSE AttrOk(a4)

NewIPv6Addr(a) ==
    LET a16 == To16(a)
    IN  IF a16 = <<>> THEN AttrErr ELSE AttrOk(a16)

\* the strings and byte slices the constructors are applied to
ValueInputs ==
    SeqsUpTo({0, 255}, MaxValueLen) \cup {Pattern(n) : n \in LongValueLens}

Uint32Inputs == {Zeros(4), <<1, 0, 0, 0>>, <<0, 1, 2, 3>>, <<255, 255, 255, 255>>}

Uint64Inputs == {Zeros(8), <<1, 2, 3, 4, 5, 6, 7, 8>>, <<255, 255, 255, 255, 255, 255, 255, 255>>}

\* t.Unix() of the times given to NewTime: 0, 1, 2^32 - 1, 2^32 and -1
UnixInputs ==
    {Zeros(8), <<1>> \o Zeros(7), <<255, 255, 255, 255>> \o Zeros(4),
     Zeros(4) \o <<1, 0, 0, 0>>, <<255, 255, 255, 255, 255, 255, 255, 255>>}

\* the net.IP values given to NewIPAddr / NewIPv6Addr: nil, 10.0.0.1 in its
\* 4 and 16 byte forms, 2001:db8::1, and a slice that is no address
IPInputs ==
    {<<>>, <<10, 0, 0, 1>>, V4InV6Prefix \o <<10, 0, 0, 1>>,
     <<32, 1, 13, 184>> \o Zeros(11) \o <<1>>, <<1, 2, 3, 4, 5>>}

EapInputs ==
    [Code : {1, 3}, Identifier : {0, 255}, Type : {0, 1},
     Data : SeqsUpTo({0, 255}, MaxValueLen)
                \cup {Pattern(n) : n \in LongEapDataLens}]

\* the constructor calls
AttrCalls ==
    [fn : {"NewString", "NewBytes"}, arg : ValueInputs]
        \cup [fn : {"NewInt"}, arg : Uint32Inputs]
        \cup [fn : {"NewInt64"}, arg : Uint64Inputs]
        \cup [fn : {"NewTime"}, arg : UnixInputs]
        \cup [fn : {"NewIPAddr", "NewIPv6Addr"}, arg : IPInputs]
        \cup [fn : {"NewEAPMessage"}, arg : EapInputs]

\* what the constructor called returns
Construct(call) ==
    CASE call.fn = "NewString" -> NewString(call.arg)
      [] call.fn = "NewBytes" -> NewBytes(call.arg)
      [] call.fn = "NewInt" -> NewInt(call.arg)
      [] call.fn = "NewInt64" -> NewInt64(call.arg)
      [] call.fn = "NewTime" -> NewTime(call.arg)
      [] call.fn = "NewIPAddr" -> NewIPAddr(call.arg)
      [] call.fn = "NewIPv6Addr" -> NewIPv6Addr(call.arg)
      [] call.fn = "NewEAPMessage" ->
            AttrOk(NewEAPMessage(call.arg.Code, call.arg.Identifier,
                                 call.arg.Type, call.arg.Data))

AttrInit ==
    /\ NewServer(3)
    /\ eapPc = "idle"
    /\ eapIn = <<>>
    /\ eapArgs = <<>>
    /\ eapOut = [kind |-> "none"]
    /\ attrCall \in AttrCalls
    /\ attrOut = [kind |-> "none"]
    /\ WriterIdle

\* the constructor is called
AttrBuild ==
    /\ attrCall.fn # "none"
    /\ attrOut.kind = "none"
    /\ attrOut' = Construct(attrCall)
    /\ UNCHANGED <<eapPc, eapIn, eapArgs, eapOut, attrCall, writer>>
    /\ UNCHANGED serverVars

AttrNext == AttrBuild

AttrSpec == AttrInit /\ [][AttrNext]_vars

\* the returned value holds the whole argument: the bytes themselves, the
\* integer or the time it decodes to, the address it denotes, the message's
\* header and Data
Carries(call, v) ==
    CASE call.fn \in {"NewString", "NewBytes"} -> v = call.arg
      [] call.fn \in {"NewInt", "NewInt64"} -> BigEndian(v) = call.arg
      [] call.fn = "NewTime" -> FromUint32(BigEndian(v)) = call.arg
      [] call.fn \in {"NewIPAddr", "NewIPv6Addr"} -> To16(v) = To16(call.arg)
      [] call.fn = "NewEAPMessage" ->
            /\ Len(v) = 5 + Len(call.arg.Data)
            /\ Embedded(v) = Len(v)
            /\ SubSeq(v, 6, Len(v)) = call.arg.Data

\* C11: every Attribute constructor either returns an error or returns a
\* value of at most 253 bytes that holds the whole input: none returns a
\* longer value and none silently truncates.
C11_AttributeValueBound ==
    attrOut.kind = "ok" =>
        /\ Len(attrOut.value) <= 253
        /\ Carries(attrCall, attrOut.value)

\* C11, for NewEAPMessage alone
C11_EapValueBound ==
    (attrCall.fn = "NewEAPMessage" /\ attrOut.kind = "ok") =>
        Len(attrOut.value) <= 253

\* C11, for NewTime alone
C11_TimeNotTruncated ==
    (attrCall.fn = "NewTime" /\ attrOut.kind = "ok") =>
        Carries(attrCall, attrOut.value)

\* C11, for the constructors other than NewEAPMessage and NewTime
C11_OtherConstructors ==
    (attrCall.fn \in {"NewString", "NewBytes", "NewInt", "NewInt64",
                      "NewIPAddr", "NewIPv6Addr"} /\ attrOut.kind = "ok") =>
        /\ Len(attrOut.value) <= 253
        /\ Carries(attrCall, attrOut.value)

====
